---- MODULE Spec2Model ----
(***************************************************************************)
(* Model of the two MEX entry points of matlab-dtts:                       *)
(*   dtt1D.cpp  mexFunction  (1D transform along one axis of a 2D array)   *)
(*   dtt2D.cpp  mexFunction  (fused 2D transform)                          *)
(* Each mexFunction is modelled statement block by statement block; the    *)
(* program counter pc names the block that runs next.  FFTW is a black     *)
(* box: the model records every call made to it, and lets the planner      *)
(* return either a plan or NULL.  mexErrMsgTxt ends the call at once.      *)
(***************************************************************************)
EXTENDS Integers, Sequences, FiniteSets

\* ------------------------------------------------------------------ bounds

\* largest extent of the input array (extents range over 0..MaxN)
MaxN == 5
\* type codes supplied by the caller range over -1..MaxCode
MaxCode == 9
\* the DIM argument, when given, ranges over -1..MaxAxis
MaxAxis == 3
\* element count of the DTT_TYPE argument ranges over 0..MaxTypeLen
MaxTypeLen == 3
\* mxGetNumberOfDimensions ranges over 2..MaxDims (it is always >= 2)
MaxDims == 3

Codes == -1 .. MaxCode
Extents == 0 .. MaxN

\* The code reads at most the first two elements of the DTT_TYPE array.
TypeVals(numel) == [1 .. (IF numel < 2 THEN numel ELSE 2) -> Codes]

\* The DIM argument: absent (nrhs == 2) or one scalar (nrhs == 3).
DimArgs == {<<>>} \cup {<<d>> : d \in -1 .. MaxAxis}

\* ------------------------------------------------------------- constants

NULL == "NULL"
PlanHandle == "plan"
Unset == "unset"

\* mexErrMsgTxt messages, by the error kind they report
InvalidTypeCode == "InvalidTypeCode"
InvalidAxis == "InvalidAxis"
ShapeMismatch == "ShapeMismatch"
BadArgument == "BadArgument"

\* what a read through a NULL plan can do: fault, or fall through
UBOutcomes == {"crash", "continue"}

VARIABLES
    pc,           \* block of mexFunction that runs next
    fn,           \* which mexFunction is running
    prhs,         \* the caller's arguments
    DTT_type,     \* dtt1D: int DTT_type
    DIM,          \* dtt1D: int DIM
    NX,           \* int NX
    NY,           \* int NY
    geom,         \* dtt1D: n[0], howmany, idist, odist, istride, ostride
    fKind,        \* dtt1D: fKind[0]
    DTT_type_x,   \* dtt2D: fftw_r2r_kind DTT_type_x
    DTT_type_y,   \* dtt2D: fftw_r2r_kind DTT_type_y
    output_mat,   \* TRUE once plhs[0] has been created
    plan,         \* fftw_plan plan
    backend,      \* the calls made to FFTW during this call, in order
    heap,         \* FFTW allocations currently held
    written,      \* buffers FFTW has written
    result        \* outcome of the call

vars == <<pc, fn, prhs, DTT_type, DIM, NX, NY, geom, fKind, DTT_type_x,
          DTT_type_y, output_mat, plan, backend, heap, written, result>>

NoArgs == [type_numel |-> 0, type_vals |-> <<>>, dim |-> <<>>,
           dims |-> <<0, 0>>, numdims |-> 2]

NoGeom == [n |-> 0, howmany |-> 0, idist |-> 0, odist |-> 0,
           istride |-> 0, ostride |-> 0]

\* ------------------------------------------------------ dtt1D: pure parts

\* a range check that lets code 0 through
ValidType_FromZero(t) == t \in {0, 1, 2, 3, 4, 5, 6, 7, 8}

\* dtt1D.cpp line 76
ValidType(t) == t \in {1, 2, 3, 4, 5, 6, 7, 8}

\* a range check that lets axis 0 through
ValidDIM_FromZero(d) == (d = 0) \/ (d = 1) \/ (d = 2)

\* dtt1D.cpp line 100
ValidDIM(d) == (d = 1) \/ (d = 2)

\* the override without its single-column branch
ForceDIM_OnlyNX(nx, ny, dim) ==
    IF nx = 1 THEN 2
    ELSE dim

\* the override with its two forced axes exchanged
ForceDIM_Exchanged(nx, ny, dim) ==
    IF nx = 1 THEN 1
    ELSE IF ny = 1 THEN 2
    ELSE dim

\* dtt1D.cpp lines 128-134
ForceDIM(nx, ny, dim) ==
    IF nx = 1 THEN 2
    ELSE IF ny = 1 THEN 1
    ELSE dim

\* the row geometry with the stride taken from the wrong extent
PlanGeometry_StrideNY(dim, nx, ny) ==
    CASE dim = 1 -> [n |-> nx, howmany |-> ny, idist |-> nx, odist |-> nx,
                     istride |-> 1, ostride |-> 1]
      [] dim = 2 -> [n |-> ny, howmany |-> nx, idist |-> 1, odist |-> 1,
                     istride |-> ny, ostride |-> ny]
      [] OTHER -> [error |-> InvalidAxis]

\* dtt1D.cpp lines 152-169; "error" is the default branch
PlanGeometry(dim, nx, ny) ==
    CASE dim = 1 -> [n |-> nx, howmany |-> ny, idist |-> nx, odist |-> nx,
                     istride |-> 1, ostride |-> 1]
      [] dim = 2 -> [n |-> ny, howmany |-> nx, idist |-> 1, odist |-> 1,
                     istride |-> nx, ostride |-> nx]
      [] OTHER -> [error |-> InvalidAxis]

\* dtt1D.cpp lines 178-188; "error" is the default branch
KindOf(t) ==
    CASE t = 1 -> "FFTW_REDFT00"
      [] t = 2 -> "FFTW_REDFT10"
      [] t = 3 -> "FFTW_REDFT01"
      [] t = 4 -> "FFTW_REDFT11"
      [] t = 5 -> "FFTW_RODFT00"
      [] t = 6 -> "FFTW_RODFT10"
      [] t = 7 -> "FFTW_RODFT01"
      [] t = 8 -> "FFTW_RODFT11"
      [] OTHER -> "error"

\* dtt1D.cpp line 202: the arguments of fftw_plan_many_r2r
PlanManyCall(g, kind, ret) ==
    [op |-> "fftw_plan_many_r2r", rank |-> 1, n |-> g.n, howmany |-> g.howmany,
     in |-> "input", istride |-> g.istride, idist |-> g.idist,
     out |-> "output", ostride |-> g.ostride, odist |-> g.odist,
     kind |-> kind, flags |-> "FFTW_ESTIMATE", ret |-> ret]

\* ------------------------------------------------------ dtt2D: pure parts

\* dtt2D.cpp lines 73-83, DTT_type_x
ScalarKindX(t) ==
    CASE t = 1 -> "FFTW_REDFT00"
      [] t = 2 -> "FFTW_REDFT10"
      [] t = 3 -> "FFTW_REDFT01"
      [] t = 4 -> "FFTW_REDFT11"
      [] t = 5 -> "FFTW_RODFT00"
      [] t = 6 -> "FFTW_RODFT10"
      [] t = 7 -> "FFTW_RODFT01"
      [] t = 8 -> "FFTW_RODFT11"
      [] OTHER -> "error"

\* dtt2D.cpp lines 73-83, DTT_type_y
ScalarKindY(t) ==
    CASE t = 1 -> "FFTW_REDFT00"
      [] t = 2 -> "FFTW_REDFT10"
      [] t = 3 -> "FFTW_REDFT01"
      [] t = 4 -> "FFTW_REDFT11"
      [] t = 5 -> "FFTW_RODFT00"
      [] t = 6 -> "FFTW_RODFT10"
      [] t = 7 -> "FFTW_RODFT01"
      [] t = 8 -> "FFTW_RODFT11"
      [] OTHER -> "error"

\* dtt2D.cpp lines 89-99
VectorKindX(t) ==
    CASE t = 1 -> "FFTW_REDFT00"
      [] t = 2 -> "FFTW_REDFT10"
      [] t = 3 -> "FFTW_REDFT01"
      [] t = 4 -> "FFTW_REDFT11"
      [] t = 5 -> "FFTW_RODFT00"
      [] t = 6 -> "FFTW_RODFT10"
      [] t = 7 -> "FFTW_RODFT01"
      [] t = 8 -> "FFTW_RODFT11"
      [] OTHER -> "error"

\* a y-direction table with two sine entries exchanged
VectorKindY_Diverged(t) ==
    CASE t = 1 -> "FFTW_REDFT00"
      [] t = 2 -> "FFTW_REDFT10"
      [] t = 3 -> "FFTW_REDFT01"
      [] t = 4 -> "FFTW_REDFT11"
      [] t = 5 -> "FFTW_RODFT00"
      [] t = 6 -> "FFTW_RODFT01"
      [] t = 7 -> "FFTW_RODFT10"
      [] t = 8 -> "FFTW_RODFT11"
      [] OTHER -> "error"

\* dtt2D.cpp lines 102-112
VectorKindY(t) ==
    CASE t = 1 -> "FFTW_REDFT00"
      [] t = 2 -> "FFTW_REDFT10"
      [] t = 3 -> "FFTW_REDFT01"
      [] t = 4 -> "FFTW_REDFT11"
      [] t = 5 -> "FFTW_RODFT00"
      [] t = 6 -> "FFTW_RODFT10"
      [] t = 7 -> "FFTW_RODFT01"
      [] t = 8 -> "FFTW_RODFT11"
      [] OTHER -> "error"

\* the fused call with the two kinds in (x, y) order
Plan2DCall_KindsXY(nx, ny, kx, ky, ret) ==
    [op |-> "fftw_plan_r2r_2d", n0 |-> ny, n1 |-> nx,
     in |-> "input", out |-> "output",
     kind0 |-> kx, kind1 |-> ky, flags |-> "FFTW_ESTIMATE", ret |-> ret]

\* dtt2D.cpp line 155: the arguments of fftw_plan_r2r_2d
Plan2DCall(nx, ny, kx, ky, ret) ==
    [op |-> "fftw_plan_r2r_2d", n0 |-> ny, n1 |-> nx,
     in |-> "input", out |-> "output",
     kind0 |-> ky, kind1 |-> kx, flags |-> "FFTW_ESTIMATE", ret |-> ret]

\* ------------------------------------------------------------ shared steps

\* mexErrMsgTxt: the call ends here with the error; nothing else changes
Fail(kind) ==
    /\ pc' = "done"
    /\ result' = kind

\* no call in progress, nothing held over from the call before
Init ==
    /\ pc = "idle"
    /\ fn = "none"
    /\ prhs = NoArgs
    /\ DTT_type = 0
    /\ DIM = 1
    /\ NX = 0
    /\ NY = 0
    /\ geom = NoGeom
    /\ fKind = Unset
    /\ DTT_type_x = Unset
    /\ DTT_type_y = Unset
    /\ output_mat = FALSE
    /\ plan = Unset
    /\ backend = <<>>
    /\ heap = {}
    /\ written = {}
    /\ result = "none"

\* entry into a mexFunction: locals as declared, no output yet
Enter(f, args, first) ==
    /\ pc' = first
    /\ fn' = f
    /\ prhs' = args
    /\ DTT_type' = 0
    /\ DIM' = 1
    /\ NX' = 0
    /\ NY' = 0
    /\ geom' = NoGeom
    /\ fKind' = Unset
    /\ DTT_type_x' = Unset
    /\ DTT_type_y' = Unset
    /\ output_mat' = FALSE
    /\ plan' = Unset
    /\ backend' = <<>>
    /\ written' = {}
    /\ result' = "running"
    /\ UNCHANGED heap

\* the mexFunction returns (or has raised its error) and its frame is gone;
\* a faulted process makes no further call
Return ==
    /\ pc = "done"
    /\ result # "crash"
    /\ pc' = "idle"
    /\ fn' = "none"
    /\ prhs' = NoArgs
    /\ DTT_type' = 0
    /\ DIM' = 1
    /\ NX' = 0
    /\ NY' = 0
    /\ geom' = NoGeom
    /\ fKind' = Unset
    /\ DTT_type_x' = Unset
    /\ DTT_type_y' = Unset
    /\ output_mat' = FALSE
    /\ plan' = Unset
    /\ backend' = <<>>
    /\ written' = {}
    /\ result' = "none"
    /\ UNCHANGED heap

\* ----------------------------------------------------------------- dtt1D

\* dtt1D.cpp lines 29-60: entry with two or three inputs and one output
Call1D ==
    /\ pc = "idle"
    /\ \E tn \in 0 .. MaxTypeLen : \E tv \in TypeVals(tn) : \E d \in DimArgs :
       \E nx \in Extents : \E ny \in Extents : \E nd \in 2 .. MaxDims :
        Enter("dtt1D",
              [type_numel |-> tn, type_vals |-> tv, dim |-> d,
               dims |-> <<nx, ny>>, numdims |-> nd],
              "d1_type")

\* dtt1D.cpp lines 66-78
D1_CheckType ==
    /\ pc = "d1_type"
    /\ IF prhs.type_numel # 1
       THEN /\ Fail(BadArgument)
            /\ UNCHANGED DTT_type
       ELSE /\ DTT_type' = prhs.type_vals[1]
            /\ IF ~ValidType(prhs.type_vals[1])
               THEN Fail(InvalidTypeCode)
               ELSE /\ pc' = "d1_dim"
                    /\ UNCHANGED result
    /\ UNCHANGED <<fn, prhs, DIM, NX, NY, geom, fKind, DTT_type_x, DTT_type_y,
                   output_mat, plan, backend, heap, written>>

\* dtt1D.cpp lines 84-104
D1_CheckDim ==
    /\ pc = "d1_dim"
    /\ IF Len(prhs.dim) = 0
       THEN /\ pc' = "d1_array"
            /\ UNCHANGED <<DIM, result>>
       ELSE /\ DIM' = prhs.dim[1]
            /\ IF ~ValidDIM(prhs.dim[1])
               THEN Fail(InvalidAxis)
               ELSE /\ pc' = "d1_array"
                    /\ UNCHANGED result
    /\ UNCHANGED <<fn, prhs, DTT_type, NX, NY, geom, fKind, DTT_type_x,
                   DTT_type_y, output_mat, plan, backend, heap, written>>

\* dtt1D.cpp lines 110-134
D1_CheckArray ==
    /\ pc = "d1_array"
    /\ IF prhs.numdims > 2
       THEN /\ Fail(ShapeMismatch)
            /\ UNCHANGED <<NX, NY, DIM>>
       ELSE /\ NX' = prhs.dims[1]
            /\ NY' = prhs.dims[2]
            /\ DIM' = ForceDIM(prhs.dims[1], prhs.dims[2], DIM)
            /\ pc' = "d1_alloc"
            /\ UNCHANGED result
    /\ UNCHANGED <<fn, prhs, DTT_type, geom, fKind, DTT_type_x, DTT_type_y,
                   output_mat, plan, backend, heap, written>>

\* dtt1D.cpp lines 139-144
D1_Allocate ==
    /\ pc = "d1_alloc"
    /\ output_mat' = TRUE
    /\ pc' = "d1_geom"
    /\ UNCHANGED <<fn, prhs, DTT_type, DIM, NX, NY, geom, fKind, DTT_type_x,
                   DTT_type_y, plan, backend, heap, written, result>>

\* dtt1D.cpp lines 150-169
D1_Geometry ==
    /\ pc = "d1_geom"
    /\ LET g == PlanGeometry(DIM, NX, NY) IN
       IF "error" \in DOMAIN g
       THEN /\ Fail(g.error)
            /\ UNCHANGED geom
       ELSE /\ geom' = g
            /\ pc' = "d1_kind"
            /\ UNCHANGED result
    /\ UNCHANGED <<fn, prhs, DTT_type, DIM, NX, NY, fKind, DTT_type_x,
                   DTT_type_y, output_mat, plan, backend, heap, written>>

\* dtt1D.cpp lines 171-188
D1_Kind ==
    /\ pc = "d1_kind"
    /\ heap' = heap \cup {"fKind"}
    /\ LET k == KindOf(DTT_type) IN
       IF k = "error"
       THEN /\ Fail(InvalidTypeCode)
            /\ UNCHANGED fKind
       ELSE /\ fKind' = k
            /\ pc' = "d1_plan"
            /\ UNCHANGED result
    /\ UNCHANGED <<fn, prhs, DTT_type, DIM, NX, NY, geom, DTT_type_x,
                   DTT_type_y, output_mat, plan, backend, written>>

\* dtt1D.cpp lines 201-202; FFTW returns a plan, or NULL when it cannot plan
D1_Plan ==
    /\ pc = "d1_plan"
    /\ \E ret \in {PlanHandle, NULL} :
        /\ plan' = ret
        /\ backend' = Append(backend, PlanManyCall(geom, fKind, ret))
        /\ heap' = IF ret = NULL THEN heap ELSE heap \cup {"plan"}
    /\ pc' = "d1_exec"
    /\ UNCHANGED <<fn, prhs, DTT_type, DIM, NX, NY, geom, fKind, DTT_type_x,
                   DTT_type_y, output_mat, written, result>>

\* dtt1D.cpp lines 204-205; fftw_execute of a NULL plan is undefined
D1_Execute ==
    /\ pc = "d1_exec"
    /\ backend' = Append(backend, [op |-> "fftw_execute", plan |-> plan])
    /\ IF plan # NULL
       THEN /\ written' = written \cup {backend[1].out}
            /\ pc' = "d1_cleanup"
            /\ UNCHANGED result
       ELSE \E outcome \in UBOutcomes :
            IF outcome = "crash"
            THEN /\ pc' = "done"
                 /\ result' = "crash"
                 /\ UNCHANGED written
            ELSE /\ pc' = "d1_cleanup"
                 /\ UNCHANGED <<written, result>>
    /\ UNCHANGED <<fn, prhs, DTT_type, DIM, NX, NY, geom, fKind, DTT_type_x,
                   DTT_type_y, output_mat, plan, heap>>

\* dtt1D.cpp lines 211-215
D1_Cleanup ==
    /\ pc = "d1_cleanup"
    /\ backend' = Append(Append(backend,
                      [op |-> "fftw_destroy_plan", plan |-> plan]),
                      [op |-> "fftw_free", ptr |-> "fKind"])
    /\ heap' = (heap \ {"plan"}) \ {"fKind"}
    /\ pc' = "done"
    /\ result' = "ok"
    /\ UNCHANGED <<fn, prhs, DTT_type, DIM, NX, NY, geom, fKind, DTT_type_x,
                   DTT_type_y, output_mat, plan, written>>

\* ----------------------------------------------------------------- dtt2D

\* dtt2D.cpp lines 29-53: entry with two inputs and one output
Call2D ==
    /\ pc = "idle"
    /\ \E tn \in 0 .. MaxTypeLen : \E tv \in TypeVals(tn) :
       \E nx \in Extents : \E ny \in Extents : \E nd \in 2 .. MaxDims :
        Enter("dtt2D",
              [type_numel |-> tn, type_vals |-> tv, dim |-> <<>>,
               dims |-> <<nx, ny>>, numdims |-> nd],
              "d2_type")

\* dtt2D.cpp lines 64-117
D2_MapType ==
    /\ pc = "d2_type"
    /\ IF prhs.type_numel = 1
       THEN LET kx == ScalarKindX(prhs.type_vals[1])
                ky == ScalarKindY(prhs.type_vals[1]) IN
            IF kx = "error"
            THEN /\ Fail(InvalidTypeCode)
                 /\ UNCHANGED <<DTT_type_x, DTT_type_y>>
            ELSE /\ DTT_type_x' = kx
                 /\ DTT_type_y' = ky
                 /\ pc' = "d2_array"
                 /\ UNCHANGED result
       ELSE IF prhs.type_numel = 2
       THEN LET kx == VectorKindX(prhs.type_vals[1])
                ky == VectorKindY(prhs.type_vals[2]) IN
            IF kx = "error"
            THEN /\ Fail(InvalidTypeCode)
                 /\ UNCHANGED <<DTT_type_x, DTT_type_y>>
            ELSE /\ DTT_type_x' = kx
                 /\ IF ky = "error"
                    THEN /\ Fail(InvalidTypeCode)
                         /\ UNCHANGED DTT_type_y
                    ELSE /\ DTT_type_y' = ky
                         /\ pc' = "d2_array"
                         /\ UNCHANGED result
       ELSE /\ Fail(ShapeMismatch)
            /\ UNCHANGED <<DTT_type_x, DTT_type_y>>
    /\ UNCHANGED <<fn, prhs, DTT_type, DIM, NX, NY, geom, fKind, output_mat,
                   plan, backend, heap, written>>

\* dtt2D.cpp lines 123-138
D2_CheckArray ==
    /\ pc = "d2_array"
    /\ IF prhs.numdims # 2
       THEN /\ Fail(ShapeMismatch)
            /\ UNCHANGED <<NX, NY>>
       ELSE /\ NX' = prhs.dims[1]
            /\ NY' = prhs.dims[2]
            /\ pc' = "d2_alloc"
            /\ UNCHANGED result
    /\ UNCHANGED <<fn, prhs, DTT_type, DIM, geom, fKind, DTT_type_x,
                   DTT_type_y, output_mat, plan, backend, heap, written>>

\* dtt2D.cpp lines 140-145
D2_Allocate ==
    /\ pc = "d2_alloc"
    /\ output_mat' = TRUE
    /\ pc' = "d2_plan"
    /\ UNCHANGED <<fn, prhs, DTT_type, DIM, NX, NY, geom, fKind, DTT_type_x,
                   DTT_type_y, plan, backend, heap, written, result>>

\* dtt2D.cpp lines 154-155; FFTW returns a plan, or NULL when it cannot plan
D2_Plan ==
    /\ pc = "d2_plan"
    /\ \E ret \in {PlanHandle, NULL} :
        /\ plan' = ret
        /\ backend' = Append(backend,
                             Plan2DCall(NX, NY, DTT_type_x, DTT_type_y, ret))
        /\ heap' = IF ret = NULL THEN heap ELSE heap \cup {"plan"}
    /\ pc' = "d2_exec"
    /\ UNCHANGED <<fn, prhs, DTT_type, DIM, NX, NY, geom, fKind, DTT_type_x,
                   DTT_type_y, output_mat, written, result>>

\* dtt2D.cpp lines 157-158; fftw_execute of a NULL plan is undefined
D2_Execute ==
    /\ pc = "d2_exec"
    /\ backend' = Append(backend, [op |-> "fftw_execute", plan |-> plan])
    /\ IF plan # NULL
       THEN /\ written' = written \cup {backend[1].out}
            /\ pc' = "d2_cleanup"
            /\ UNCHANGED result
       ELSE \E outcome \in UBOutcomes :
            IF outcome = "crash"
            THEN /\ pc' = "done"
                 /\ result' = "crash"
                 /\ UNCHANGED written
            ELSE /\ pc' = "d2_cleanup"
                 /\ UNCHANGED <<written, result>>
    /\ UNCHANGED <<fn, prhs, DTT_type, DIM, NX, NY, geom, fKind, DTT_type_x,
                   DTT_type_y, output_mat, plan, heap>>

\* dtt2D.cpp lines 164-167
D2_Cleanup ==
    /\ pc = "d2_cleanup"
    /\ backend' = Append(backend, [op |-> "fftw_destroy_plan", plan |-> plan])
    /\ heap' = heap \ {"plan"}
    /\ pc' = "done"
    /\ result' = "ok"
    /\ UNCHANGED <<fn, prhs, DTT_type, DIM, NX, NY, geom, fKind, DTT_type_x,
                   DTT_type_y, output_mat, plan, written>>

\* ------------------------------------------------------------------- spec

Next ==
    \/ Call1D
    \/ D1_CheckType
    \/ D1_CheckDim
    \/ D1_CheckArray
    \/ D1_Allocate
    \/ D1_Geometry
    \/ D1_Kind
    \/ D1_Plan
    \/ D1_Execute
    \/ D1_Cleanup
    \/ Call2D
    \/ D2_MapType
    \/ D2_CheckArray
    \/ D2_Allocate
    \/ D2_Plan
    \/ D2_Execute
    \/ D2_Cleanup
    \/ Return

Spec == Init /\ [][Next]_vars

\* ----------------------------------------------------------------- claims

\* the caller's view of a call
InNX == prhs.dims[1]
InNY == prhs.dims[2]
ReqAxis == IF Len(prhs.dim) = 0 THEN 1 ELSE prhs.dim[1]
CodeX == prhs.type_vals[1]
CodeY == IF prhs.type_numel = 1 THEN prhs.type_vals[1] ELSE prhs.type_vals[2]
Planned1D == fn = "dtt1D" /\ Len(backend) >= 1
Planned2D == fn = "dtt2D" /\ Len(backend) >= 1
PlanCalls == {"fftw_plan_many_r2r", "fftw_plan_r2r_2d"}
\* the error kind of a failed planning call; no mexErrMsgTxt reports it
PlanningFailure == "PlanningFailure"
Errors == {InvalidTypeCode, InvalidAxis, ShapeMismatch, PlanningFailure,
           BadArgument}

\* the kernel kinds in table order, codes 1..8
KindTable == <<"FFTW_REDFT00", "FFTW_REDFT10", "FFTW_REDFT01", "FFTW_REDFT11",
               "FFTW_RODFT00", "FFTW_RODFT10", "FFTW_RODFT01", "FFTW_RODFT11">>

\* the FFTW calls of this call that concern the plan, in order
PlanOps ==
    SelectSeq(backend,
              LAMBDA c : c.op \in PlanCalls \cup {"fftw_execute",
                                                  "fftw_destroy_plan"})

\* C1: for every requested axis in {1, 2} (1 when none is given) and every
\* shape NX > 0, NY > 0, dtt1D hands FFTW the geometry of the effective axis
\* (2 if NX == 1, else 1 if NY == 1, else the requested axis): axis 1 gives
\* length NX, batch NY, stride 1, distance NX; axis 2 gives length NY, batch
\* NX, stride NX, distance 1; input and output stride and distance agree.
\* Every such call with a valid scalar type code and a 2D array does plan.
C1_EffectiveGeometry ==
    /\ (Planned1D /\ InNX > 0 /\ InNY > 0) =>
          LET c == backend[1]
              eff == IF InNX = 1 THEN 2 ELSE IF InNY = 1 THEN 1 ELSE ReqAxis
          IN /\ c.op = "fftw_plan_many_r2r"
             /\ ReqAxis \in {1, 2}
             /\ (eff = 1) => /\ c.n = InNX
                             /\ c.howmany = InNY
                             /\ c.istride = 1
                             /\ c.idist = InNX
             /\ (eff = 2) => /\ c.n = InNY
                             /\ c.howmany = InNX
                             /\ c.istride = InNX
                             /\ c.idist = 1
             /\ c.ostride = c.istride
             /\ c.odist = c.idist
    /\ ( /\ fn = "dtt1D"
         /\ pc = "done"
         /\ prhs.type_numel = 1
         /\ prhs.type_vals[1] \in 1 .. 8
         /\ ReqAxis \in {1, 2}
         /\ prhs.numdims = 2 ) => Planned1D

\* a single-column array with the row axis requested has been planned
C1_Witness ==
    /\ Planned1D
    /\ prhs.dims = <<3, 1>>
    /\ prhs.dim = <<2>>
    /\ backend[1].n = 3
    /\ backend[1].idist = 3

\* C2 as stated: NX=1, NY=5 gives length 5, batch 1, stride 1, distance 5,
\* and NX=5, NY=1 gives length 5, batch 1, stride 1, distance 1.
C2_AsStated ==
    Planned1D =>
        LET c == backend[1] IN
        /\ (prhs.dims = <<1, 5>>) =>
              (c.n = 5 /\ c.howmany = 1 /\ c.istride = 1 /\ c.idist = 5)
        /\ (prhs.dims = <<5, 1>>) =>
              (c.n = 5 /\ c.howmany = 1 /\ c.istride = 1 /\ c.idist = 1)

\* C2 amended: for any requested axis, NX=1, NY=5 (forced to axis 2) gives
\* length 5, batch 1, stride 1, distance 1, and NX=5, NY=1 (forced to axis 1)
\* gives length 5, batch 1, stride 1, distance 5.
C2_DegenerateGeometry ==
    Planned1D =>
        LET c == backend[1] IN
        /\ (prhs.dims = <<1, 5>>) =>
              /\ c.n = 5 /\ c.howmany = 1
              /\ c.istride = 1 /\ c.idist = 1
              /\ c.ostride = 1 /\ c.odist = 1
        /\ (prhs.dims = <<5, 1>>) =>
              /\ c.n = 5 /\ c.howmany = 1
              /\ c.istride = 1 /\ c.idist = 5
              /\ c.ostride = 1 /\ c.odist = 5

\* a 1x5 array with the column axis requested has been planned
C2_Witness ==
    /\ Planned1D
    /\ prhs.dims = <<1, 5>>
    /\ prhs.dim = <<1>>
    /\ DIM = 2

\* C3: codes 1..8 map one-to-one onto the eight kinds in table order, by the
\* same table in dtt1D, in dtt2D's scalar form (both axes) and in each element
\* of dtt2D's two-element form; any other integer code ends the call with
\* InvalidTypeCode at each of those sites.
C3_OneMapping ==
    /\ \A c \in 1 .. 8 : \A d \in 1 .. 8 :
          (KindTable[c] = KindTable[d]) => (c = d)
    /\ (fn = "dtt1D" /\ pc \in {"d1_plan", "d1_exec", "d1_cleanup"}) =>
          /\ CodeX \in 1 .. 8
          /\ fKind = KindTable[CodeX]
    /\ Planned1D => backend[1].kind = KindTable[CodeX]
    /\ (fn = "dtt2D" /\ pc # "d2_type" /\ result \notin Errors) =>
          /\ prhs.type_numel \in {1, 2}
          /\ CodeX \in 1 .. 8
          /\ CodeY \in 1 .. 8
          /\ DTT_type_x = KindTable[CodeX]
          /\ DTT_type_y = KindTable[CodeY]
    /\ ( /\ fn = "dtt1D"
         /\ pc # "d1_type"
         /\ prhs.type_numel = 1
         /\ CodeX \notin 1 .. 8 ) =>
            (pc = "done" /\ result = InvalidTypeCode)
    /\ ( /\ fn = "dtt2D"
         /\ pc # "d2_type"
         /\ prhs.type_numel \in {1, 2}
         /\ (CodeX \notin 1 .. 8 \/ CodeY \notin 1 .. 8) ) =>
            (pc = "done" /\ result = InvalidTypeCode)

\* dtt2D has mapped the code vector [2 7] to a cosine and a sine kind
C3_Witness ==
    /\ fn = "dtt2D"
    /\ prhs.type_numel = 2
    /\ prhs.type_vals = <<2, 7>>
    /\ DTT_type_x = "FFTW_REDFT10"
    /\ DTT_type_y = "FFTW_RODFT01"

\* C4: when planning returns no plan (here for an array with NX, NY >= 1) the
\* call fails with PlanningFailure: fftw_execute is never called with a plan
\* that was not constructed, planning is not tried again, and the call does
\* not return normally.
C4_PlanningFailure ==
    (InNX >= 1 /\ InNY >= 1) =>
        /\ \A i \in 1 .. Len(backend) :
              (backend[i].op = "fftw_execute") => (backend[i].plan # NULL)
        /\ \A i \in 2 .. Len(backend) : backend[i].op \notin PlanCalls
        /\ (pc = "done" /\ plan = NULL) => (result = PlanningFailure)

C6_FusedOrder ==
    Planned2D =>
        LET c == backend[1] IN
        /\ c.op = "fftw_plan_r2r_2d"
        /\ c.n0 = InNY
        /\ c.n1 = InNX
        /\ c.kind0 = KindTable[CodeY]
        /\ c.kind1 = KindTable[CodeX]
        /\ \A i \in 2 .. Len(backend) : backend[i].op \notin PlanCalls

\* a 2x3 array with the code vector [2 3] has been planned
C6_Witness ==
    /\ Planned2D
    /\ prhs.dims = <<2, 3>>
    /\ prhs.type_vals = <<2, 3>>
    /\ backend[1].kind0 = "FFTW_REDFT01"
    /\ backend[1].kind1 = "FFTW_REDFT10"

\* C7: for NX, NY >= 2 and either axis, the geometry dtt1D hands FFTW has
\* stride*(length-1) + distance*(batch-1) + 1 <= NX*NY and
\* length*batch = NX*NY, for the input and for the output.
C7_InsideBuffer ==
    (Planned1D /\ InNX >= 2 /\ InNY >= 2) =>
        LET c == backend[1] IN
        /\ c.istride * (c.n - 1) + c.idist * (c.howmany - 1) + 1 <= InNX * InNY
        /\ c.ostride * (c.n - 1) + c.odist * (c.howmany - 1) + 1 <= InNX * InNY
        /\ c.n * c.howmany = InNX * InNY

\* a 2x3 array has been planned along its rows
C7_Witness ==
    /\ Planned1D
    /\ prhs.dims = <<2, 3>>
    /\ prhs.dim = <<2>>
    /\ backend[1].istride = 2

\* C8: a call whose array has NX == 0 or NY == 0 (and is otherwise valid)
\* fails with ShapeMismatch, a dtt2D call whose code vector has a length other
\* than 1 or 2 fails with ShapeMismatch, and in neither case is FFTW asked for
\* a plan.
C8_EmptyRejected ==
    /\ (InNX = 0 \/ InNY = 0) => (backend = <<>>)
    /\ ( /\ pc = "done"
         /\ (InNX = 0 \/ InNY = 0)
         /\ result \notin {InvalidTypeCode, InvalidAxis, BadArgument} ) =>
            (result = ShapeMismatch)
    /\ (fn = "dtt2D" /\ pc # "d2_type" /\ prhs.type_numel \notin {1, 2}) =>
          (pc = "done" /\ result = ShapeMismatch /\ backend = <<>>)

\* C9: a dtt1D call (with a valid type code) whose DIM is outside {1, 2} fails
\* with InvalidAxis for every shape, degenerate shapes included; no plan is
\* requested and no output is created.
C9_InvalidAxis ==
    (fn = "dtt1D" /\ Len(prhs.dim) = 1 /\ prhs.dim[1] \notin {1, 2}) =>
        /\ backend = <<>>
        /\ ~output_mat
        /\ result # "ok"
        /\ ( /\ prhs.type_numel = 1
             /\ CodeX \in 1 .. 8
             /\ pc \notin {"d1_type", "d1_dim"} ) =>
                (pc = "done" /\ result = InvalidAxis)

\* a single-row array with DIM = 3 has been rejected
C9_Witness ==
    /\ fn = "dtt1D"
    /\ prhs.dim = <<3>>
    /\ prhs.dims = <<1, 4>>
    /\ pc = "done"
    /\ result = InvalidAxis

\* C10: a call (here for an array with NX, NY >= 1) that reaches FFTW
\* constructs one plan, executes that plan once and destroys it once, in that
\* order, and when the call has ended no plan and no kind storage is still
\* held; nothing is held between calls.
C10_PlanCycle ==
    /\ (pc = "done" /\ backend # <<>> /\ InNX >= 1 /\ InNY >= 1) =>
          /\ Len(PlanOps) = 3
          /\ PlanOps[1].op \in PlanCalls
          /\ PlanOps[1].ret = PlanHandle
          /\ PlanOps[2] = [op |-> "fftw_execute", plan |-> PlanHandle]
          /\ PlanOps[3] = [op |-> "fftw_destroy_plan", plan |-> PlanHandle]
          /\ heap = {}
    /\ (pc = "idle") => (heap = {})

====
